---- MODULE Spec2Model ----
(***************************************************************************)
(* A model of ink, a rule-driven backup rotation tool.                     *)
(*                                                                         *)
(* The repository holds two copies of the program: source/ink.py, the      *)
(* packaged module (setup.py, test_ink.py), and ink.py at the repository   *)
(* root, an earlier copy of the same module.  A behaviour of the model is  *)
(* a sequence of invocations of one of the two copies (variable program)   *)
(* on one machine: the wall clock, the live mount table, the backup        *)
(* destinations and the history file persist from one invocation to the    *)
(* next, everything else is rebuilt by main().                             *)
(*                                                                         *)
(* The program is single-threaded: pc is the position of its only thread.  *)
(* The external tools (mount, rsync, umount) are modelled by their exit    *)
(* status, drawn from {0, 1}, and by their effect on the mount table and   *)
(* on the destination.                                                     *)
(*                                                                         *)
(* Spec runs the program over any configuration, mount table and history   *)
(* file; SpecFiles runs it over a directory whose files are written and    *)
(* removed between invocations, and follows the files of the backups.      *)
(* SpecLoad runs it over configuration files whose options may be written  *)
(* in any way; SpecRepeat runs one rotating job up to MaxRuns times;       *)
(* SpecStop takes the replacement of the `current` link step by step, on   *)
(* a machine where the process may be stopped.                             *)
(* SpecMount runs it over sections that identify their partition by UUID,  *)
(* label or device.                                                        *)
(***************************************************************************)
EXTENDS Integers, Sequences, FiniteSets

\* ------------------------------------------------------------------ bounds
NJobs == 2            \* sections of the configuration file
MaxTime == 4          \* the clock stops advancing at this many ticks
MaxInvocations == 2   \* invocations of the program in one behaviour
TicksPerSec == 2      \* resolution of the clock: time.time() is now / TicksPerSec
SecPerMin == 2        \* seconds in a folder-name minute (strftime '%H:%M')
MaxVersion == 2       \* versions a file of the backed-up directory goes through
MaxRuns == 4          \* invocations in a behaviour of repeated runs of one job

Jobs == 1..NJobs
Programs == {"ink.py", "source/ink.py"}
BackupTypes == {"incremental", "nolinks", "snapshot", "full", "other"}
MountPoints == {"", "/mnt"}
Frequencies == {0, 1}
ExitCodes == {0, 1}

NoRecord == -1        \* the history file holds no section for the job
NoLink == <<>>        \* the destination holds no `current` link

\* The directory being backed up holds the files Names; a file is known by its
\* version, which stands for its content and its modification time together
\* (a write gives it both a new content and a later time); Absent: no file.
Names == {"a", "b"}
Absent == 0
\* The entry of the backed-up directory that is the backup folder, when the
\* backup folder lies inside the backed-up directory.
Inside == "backup"
\* to_backup, character by character.
to_backup == <<"/", "s">>

\* ------------------------------------------------------------------ state
VARIABLES
    program,       \* the copy of the program that is installed
    config,        \* the configuration file: one record per section
    now,           \* the wall clock, in ticks
    mounted,       \* mount points listed in /proc/mounts
    dest,          \* per job: the rotation folders and the `current` link
    persisted,     \* the history file: last_backup per section
    invocation,    \* number of invocations started so far
    force,         \* args.force_backup of the running invocation
    history,       \* history_reader / history_writer, in memory
    last_backup,   \* BackupInstance.last_backup
    mount_status,  \* PartitionManager._mount_status of each instance
    backups_made,  \* the local of BackupInstance.run
    idx,           \* position of BackupManager.run in backup_instances
    pc,            \* position of the thread
    events,        \* what the invocation did so far: tool calls and log lines
    start,         \* the destination and the history when the invocation began
    source,        \* the files of the directory being backed up
    commands,      \* the rsync command lines the invocation ran
    latest,        \* per job: the folder its most recent successful run made
    options        \* per section: its options as _check_config left them

vars == <<program, config, now, mounted, dest, persisted, invocation, force,
          history, last_backup, mount_status, backups_made, idx, pc, events,
          start, source, commands, latest, options>>

\* What no step of an invocation writes once its instances are built.
machine == <<program, config, source, options>>
\* What only the backup step writes.
copies == <<commands, latest>>

\* ------------------------------------------------------------------ time
\* time.time() is a float number of seconds; the model keeps it exact as a whole
\* number of ticks, TicksPerSec to the second.
\* int(time.time())
IntTime(t) == t \div TicksPerSec

\* datetime.datetime.now().strftime('%Y-%m-%dT%H:%M')
Minute(t) == t \div (TicksPerSec * SecPerMin)


\* ------------------------------------------------------------------ files
\* A rotation folder is named <folder_prefix><minute>, then _n, then _bak:
\* <<m, 0, 0>> is backup-m, <<m, 2, 0>> is backup-m_2, <<m, 2, 1>> is
\* backup-m_2_bak.
FolderName(m, n) == <<m, n, 0>>
\* The name itself, without the suffix.
Bak_plain(name) == name

\* The name with the _bak suffix.
Bak(name) == <<name[1], name[2], name[3] + 1>>

\* The backup folder itself, where a snapshot backup is written.
Root == <<-1, 0, 0>>

\* A destination: the rotation folders of the backup folder, the `current`
\* link, the directories <<folder, path inside it>> that exist, the files
\* <<folder, path inside it, name, inode, version>> and the number of inodes
\* batches handed out so far (one per rsync run, so that <<name, inode>> names
\* one storage object: two entries are hard links of each other exactly when
\* they agree on both).
EmptyDest == [folders |-> {}, link |-> NoLink, dirs |-> {}, files |-> {}, serial |-> 0]

\* os.makedirs(folder/dir): the folder and the directory inside it.
makedirs(d, folder, dir) ==
    [d EXCEPT !.folders = @ \cup {folder},
              !.dirs = @ \cup {<<folder, <<>>>>, <<folder, dir>>}]

\* shutil.rmtree(folder)
rmtree(d, folder) ==
    [d EXCEPT !.folders = @ \ {folder},
              !.dirs = {l \in @ : l[1] # folder},
              !.files = {e \in @ : e[1] # folder}]

\* The folder copied to the new name and left under the old one as well.
rename_kept(d, from, to) ==
    [d EXCEPT !.folders = @ \cup {to},
              !.dirs = @ \cup {<<to, l[2]>> : l \in {x \in @ : x[1] = from}},
              !.files = @ \cup {<<to, e[2], e[3], e[4], e[5]>> :
                                   e \in {x \in @ : x[1] = from}}]

\* os.rename(from, to) of a folder, to an unused name.
rename(d, from, to) ==
    [d EXCEPT !.folders = (@ \ {from}) \cup {to},
              !.dirs = {IF l[1] = from THEN <<to, l[2]>> ELSE l : l \in @},
              !.files = {IF e[1] = from THEN <<to, e[2], e[3], e[4], e[5]>> ELSE e
                            : e \in @}]

\* The files found in one directory.
Listing(files, at) == {e \in files : e[1] = at[1] /\ e[2] = at[2]}

\* os.path.isdir(symlink_latest_backup_folder): the link exists and the folder
\* it names exists.
IsDir(d) == d.link # NoLink /\ d.link \in d.folders

\* The name of the minute taken whether or not the folder exists.
get_backup_folder_basename_reused(folders, t) == FolderName(Minute(t), 0)

\* The loop of _get_backup_folder_basename from suffix n on: os.makedirs of
\* the name, and on FileExistsError the next suffix.
RECURSIVE first_made(_, _, _)
first_made(folders, m, n) ==
    IF FolderName(m, n) \notin folders
    THEN FolderName(m, n)
    ELSE first_made(folders, m, n + 1)

\* The loop begun at the suffix _1.
get_backup_folder_basename_suffixed(folders, t) == first_made(folders, Minute(t), 1)

\* The first name os.makedirs accepts: no suffix, then _1, _2, ...
get_backup_folder_basename(folders, t) == first_made(folders, Minute(t), 0)

\* The link removed and not made again.
replace_symlink_unlinked(d, base) == [d EXCEPT !.link = NoLink]

\* os.unlink (a missing link is ignored), then os.symlink.
replace_symlink(d, base) == [d EXCEPT !.link = base]

\* ------------------------------------------------------------------ rsync
\* What rsync finds in the directory being backed up: its files and, when the
\* backup folder lies inside it, the backup folder.
Entries == Names \cup {Inside}
\* rsync works through the sorted file list: what it came to is a prefix.
Order == <<"a", "b", Inside>>
Progress == {{Order[i] : i \in 1..k} : k \in 0..Len(Order)}
SourceListing(nested) ==
    [n \in Entries |-> IF n = Inside THEN (IF nested THEN 1 ELSE Absent) ELSE source[n]]

\* An rsync command line: -a SRC/ target, with --link-dest, -b --backup-dir,
\* --delete and --exclude when given (NoLink: not given).
Command(j, target, link_dest, backup_dir, delete, exclude) ==
    [job |-> j, target |-> target, link_dest |-> link_dest,
     backup_dir |-> backup_dir, delete |-> delete, exclude |-> exclude]

\* The effect of the command on the files of the destination, for the entries
\* `done` it came to (all of them when it exits 0):
\*   - an entry the target holds at the source's version is left alone;
\*   - another entry of the source is written to the target, as a hard link to
\*     the file of that name and version in the --link-dest directory when
\*     there is one, as a new file otherwise;
\*   - an entry the source does not hold is removed from the target under
\*     --delete, and left alone otherwise;
\*   - the files it replaces or removes are moved to the --backup-dir directory
\*     under -b;
\*   - an excluded entry is neither written nor removed.
\* --link-dest and --backup-dir name directories that hold what the target
\* holds: a file is looked up there by its path relative to the target.
rsync(files, cmd, src, serial, done) ==
    LET old == Listing(files, cmd.target)
        ref == IF cmd.link_dest = NoLink THEN {} ELSE Listing(files, cmd.link_dest)
        wanted == {n \in done \ cmd.exclude : src[n] # Absent}
        unwanted == {n \in done \ cmd.exclude : src[n] = Absent}
        stale == {e \in old : (e[3] \in wanted /\ e[5] # src[e[3]])
                                  \/ (e[3] \in unwanted /\ cmd.delete)}
        written == {n \in wanted : ~\E e \in old : e[3] = n /\ e[5] = src[n]}
        same(n) == {e \in ref : e[3] = n /\ e[5] = src[n]}
        inode(n) == IF same(n) # {} THEN (CHOOSE e \in same(n) : TRUE)[4] ELSE serial
        saved == IF cmd.backup_dir = NoLink THEN {}
                 ELSE {<<cmd.backup_dir[1], cmd.backup_dir[2], e[3], e[4], e[5]>>
                           : e \in stale}
    IN (files \ stale)
           \cup {<<cmd.target[1], cmd.target[2], n, inode(n), src[n]>> : n \in written}
           \cup saved

\* ------------------------------------------------------------------ log
Event(kind, j, x) == <<kind, j, x>>
Log(e) == events' = Append(events, e)
Logged(kind, j) == \E i \in 1..Len(events) : events[i][1] = kind /\ events[i][2] = j
LoggedWith(kind, j, x) == \E i \in 1..Len(events) : events[i] = <<kind, j, x>>
Count(kind, j) ==
    Cardinality({i \in 1..Len(events) : events[i][1] = kind /\ events[i][2] = j})

\* ------------------------------------------------------------------ init
\* The options of a section that _check_config examines, character by
\* character.
Section(tb, bf, mp, fs, ln, ef) ==
    [to_backup |-> tb, backup_folder |-> bf, mount_point |-> mp,
     frequency_seconds |-> fs, link_name |-> ln, exclude_file |-> ef]

\* int() of a text of the characters the model writes numbers with: digits
\* after an optional minus sign.
Digits == {"0", "1"}
signed(text) == text # <<>> /\ text[1] = "-"
unsigned(text) == IF signed(text) THEN Tail(text) ELSE text
isint(text) ==
    unsigned(text) # <<>>
    /\ \A i \in 1..Len(unsigned(text)) : unsigned(text)[i] \in Digits
RECURSIVE magnitude(_)
magnitude(text) ==
    IF text = <<>> THEN 0
    ELSE 10 * magnitude(SubSeq(text, 1, Len(text) - 1))
         + (IF text[Len(text)] = "0" THEN 0 ELSE 1)
int(text) ==
    IF signed(text) THEN 0 - magnitude(unsigned(text)) ELSE magnitude(text)

\* config[arg][:-1] when the text is longer than one character and ends in '/'.
strip(text) ==
    IF Len(text) > 1 /\ text[Len(text)] = "/"
    THEN SubSeq(text, 1, Len(text) - 1)
    ELSE text

stripped(s) ==
    Section(strip(s.to_backup), strip(s.backup_folder), strip(s.mount_point),
            s.frequency_seconds, strip(s.link_name), s.exclude_file)

\* _check_config with the checks of the older copy only.
check_config_legacy(prog, s) ==
    IF Len(s.to_backup) = 0 \/ ~isint(s.frequency_seconds)
    THEN [ok |-> FALSE, options |-> s]
    ELSE [ok |-> TRUE, options |-> stripped(s)]

\* _check_config of either copy: ok is FALSE where it raises ValueError,
\* options is the section it returns.
check_config(prog, s) ==
    IF prog = "source/ink.py"
    THEN IF \/ Len(s.to_backup) = 0
            \/ s.to_backup[1] # "/"
            \/ Len(s.backup_folder) = 0
            \/ Len(s.mount_point) > 0 /\ s.mount_point[1] # "/"
            \/ Len(s.mount_point) = 0 /\ s.backup_folder[1] # "/"
            \/ ~isint(s.frequency_seconds)
         THEN [ok |-> FALSE, options |-> s]
         ELSE [ok |-> TRUE, options |-> stripped(s)]
    ELSE IF Len(s.to_backup) = 0 \/ ~isint(s.frequency_seconds)
         THEN [ok |-> FALSE, options |-> s]
         ELSE [ok |-> TRUE, options |-> stripped(s)]

\* The texts of the options of a section whose instance has the given mount
\* point and frequency.
MountText(mp) ==
    CASE mp = "" -> <<>>
      [] mp = "/mnt" -> <<"/", "m", "n", "t">>
      [] OTHER -> <<"m", "n", "t">>
FrequencyText(f) == IF f = 0 THEN <<"0">> ELSE <<"1">>
Options(mp, f) ==
    Section(to_backup, <<"/", "b">>, MountText(mp), FrequencyText(f), <<"c">>, <<>>)

\* A section, with the attributes BackupInstance.__init__ reads from it.
Configured(r) ==
    [backup_type |-> r.backup_type, mount_point |-> r.mount_point,
     frequency |-> r.frequency, rebase_root |-> r.rebase_root,
     nested |-> r.nested, section |-> Options(r.mount_point, r.frequency),
     UUID |-> "", partition_label |-> "", partition_device |-> ""]

\* A section: rebase_root as get_default_config sets it, the backup folder
\* outside the directory being backed up (nested: inside it).
JobRecords ==
    {Configured(r) :
        r \in [backup_type : BackupTypes, mount_point : MountPoints,
               frequency : Frequencies, rebase_root : {TRUE}, nested : {FALSE}]}

\* The configuration files: every section is any job record, except that at
\* most one section departs from the reference section.
Reference ==
    Configured([backup_type |-> "incremental", mount_point |-> "/mnt",
                frequency |-> 0, rebase_root |-> TRUE, nested |-> FALSE])

Configurations ==
    {c \in [Jobs -> JobRecords] : Cardinality({j \in Jobs : c[j] # Reference}) <= 1}

\* The directory being backed up, to begin with: empty, or with every file.
Empty == [n \in Names |-> Absent]
Original == [n \in Names |-> 1]

\* The sections of the history file: one per job, and one of a name that no
\* section of the configuration file has any more, with the last_backup Kept.
Removed == NJobs + 1
Kept == 1
HistorySections == Jobs \cup {Removed}
Filed(records) ==
    [s \in HistorySections |-> IF s \in Jobs THEN records[s] ELSE Kept]

\* The state main() is first called in, on a machine of the given sets.
Booted(configurations, mounts, histories, sources) ==
    /\ program \in Programs
    /\ config \in configurations
    /\ now = 0
    /\ mounted \in mounts
    /\ dest = [j \in Jobs |-> EmptyDest]
    /\ persisted \in {Filed(h) : h \in histories}
    /\ source \in sources
    /\ options = [j \in Jobs |-> config[j].section]
    /\ commands = <<>>
    /\ latest = [j \in Jobs |-> NoLink]
    /\ invocation = 0
    /\ force = FALSE
    /\ history = persisted
    /\ last_backup = [j \in Jobs |-> 0]
    /\ mount_status = [j \in Jobs |-> "unset"]
    /\ backups_made = FALSE
    /\ idx = 1
    /\ pc = "start"
    /\ events = <<>>
    /\ start = [dest |-> dest, history |-> persisted]

\* Any configuration, mount table and history file, over an empty directory.
Init ==
    Booted(Configurations, SUBSET (MountPoints \ {""}), [Jobs -> {NoRecord, 0}], {Empty})

\* ------------------------------------------------------------------ clock
\* The clock is read by the staleness check, by the folder naming and when a
\* success is recorded; any amount of time may pass before each read (the time
\* between two invocations passes before the first staleness check).
ClockReaders == {"run", "make", "record"}

Tick ==
    /\ now < MaxTime
    /\ pc \in ClockReaders
    /\ now' = now + 1
    /\ UNCHANGED <<machine, mounted, dest, persisted, invocation, force, history,
                   last_backup, mount_status, backups_made, idx, pc, events, start,
                   copies>>

\* ------------------------------------------------------------------ main
\* BackupManager.__init__ builds one BackupInstance per section, and each
\* checks its section.
Accepted(j) == check_config(program, config[j].section).ok

Begin(limit) ==
    /\ pc \in {"start", "done", "aborted"}
    /\ invocation < limit
    /\ \A j \in Jobs : Accepted(j)
    /\ invocation' = invocation + 1
    /\ force' \in BOOLEAN
    /\ history' = persisted
    /\ mount_status' = [j \in Jobs |-> "unset"]
    /\ backups_made' = FALSE
    /\ idx' = 1
    /\ pc' = "run"
    /\ events' = <<>>
    /\ commands' = <<>>
    /\ start' = [dest |-> dest, history |-> persisted]
    /\ options' = [j \in Jobs |-> check_config(program, config[j].section).options]
    /\ UNCHANGED <<program, config, source, now, mounted, dest, persisted, latest>>

\* main() of source/ink.py: BackupManager.__init__ reads the history file over
\* a default last_backup of 0 and hands each instance its last_backup.
main ==
    /\ program = "source/ink.py"
    /\ Begin(MaxInvocations)
    /\ last_backup' = [j \in Jobs |-> IF persisted[j] = NoRecord THEN 0 ELSE persisted[j]]

\* main() of ink.py: BackupManager.run reads the history file, with no default.
legacy_main ==
    /\ program = "ink.py"
    /\ Begin(MaxInvocations)
    /\ last_backup' = [j \in Jobs |-> 0]

\* The ValueError of _check_config leaves BackupInstance.__init__ and
\* BackupManager.__init__ of either copy; main() catches it and prints it:
\* backup_manager.run() is never called.
ConfigRejected_then_run ==
    /\ pc \in {"start", "done", "aborted"}
    /\ invocation < MaxInvocations
    /\ \E j \in Jobs :
           /\ ~Accepted(j)
           /\ \A k \in 1..(j - 1) : Accepted(k)
           /\ events' = <<Event("ValueError", j, 0)>>
           /\ options' = [k \in Jobs |->
                              IF k < j
                              THEN check_config(program, config[k].section).options
                              ELSE config[k].section]
    /\ invocation' = invocation + 1
    /\ force' \in BOOLEAN
    /\ history' = persisted
    /\ mount_status' = [j \in Jobs |-> "unset"]
    /\ backups_made' = FALSE
    /\ idx' = 1
    /\ pc' = "run"
    /\ commands' = <<>>
    /\ start' = [dest |-> dest, history |-> persisted]
    /\ UNCHANGED <<program, config, source, now, mounted, dest, persisted, latest,
                   last_backup>>

ConfigRejected ==
    /\ pc \in {"start", "done", "aborted"}
    /\ invocation < MaxInvocations
    /\ \E j \in Jobs :
           /\ ~Accepted(j)
           /\ \A k \in 1..(j - 1) : Accepted(k)
           /\ events' = <<Event("ValueError", j, 0)>>
           /\ options' = [k \in Jobs |->
                              IF k < j
                              THEN check_config(program, config[k].section).options
                              ELSE config[k].section]
    /\ invocation' = invocation + 1
    /\ force' \in BOOLEAN
    /\ history' = persisted
    /\ mount_status' = [j \in Jobs |-> "unset"]
    /\ backups_made' = FALSE
    /\ idx' = 1
    /\ pc' = "aborted"
    /\ commands' = <<>>
    /\ start' = [dest |-> dest, history |-> persisted]
    /\ UNCHANGED <<program, config, source, now, mounted, dest, persisted, latest,
                   last_backup>>

\* The position after job j of the loop over backup_instances.
AfterJob(j) ==
    /\ idx' = j + 1
    /\ pc' = IF j + 1 > NJobs THEN "flush" ELSE "run"

\* An exception that nothing catches before main(): the invocation ends there.
Propagate == pc' = "aborted" /\ UNCHANGED idx

\* ------------------------------------------------------------------ staleness
\* The comparison written with >= : a backup is made again at the boundary.
backup_outdated_inclusive(t, last, frequency) ==
    t - last * TicksPerSec >= frequency * TicksPerSec

\* (time.time() - last_backup) > self._frequency, in ticks.
backup_outdated(t, last, frequency) ==
    t - last * TicksPerSec > frequency * TicksPerSec

\* The decision dropped: every job is run on every invocation.
BackupInstance_run_always(j, last) ==
    /\ Log(Event("run", j, IF config[j].mount_point \in mounted THEN 1 ELSE 0))
    /\ pc' = "mount"
    /\ UNCHANGED idx

\* BackupInstance.run up to its decision: make new backups, or return False.
\* The "run" entry of the log notes whether /proc/mounts listed the job's
\* mount point at that moment (1) or not (0).
BackupInstance_run(j, last) ==
    IF force \/ backup_outdated(now, last, config[j].frequency)
    THEN /\ Log(Event("run", j, IF config[j].mount_point \in mounted THEN 1 ELSE 0))
         /\ pc' = "mount"
         /\ UNCHANGED idx
    ELSE /\ Log(Event("skip", j, 0))
         /\ AfterJob(j)

BackupManager_run ==
    /\ program = "source/ink.py"
    /\ pc = "run"
    /\ BackupInstance_run(idx, last_backup[idx])
    /\ UNCHANGED <<machine, now, mounted, dest, persisted, invocation, force,
                   history, last_backup, mount_status, backups_made, start, copies>>

\* history_writer.getint(name, 'last_backup') raises NoSectionError for a job
\* the history file does not hold.
legacy_BackupManager_run ==
    /\ program = "ink.py"
    /\ pc = "run"
    /\ IF history[idx] = NoRecord
       THEN /\ Log(Event("nosection", idx, 0))
            /\ Propagate
            /\ UNCHANGED last_backup
       ELSE /\ BackupInstance_run(idx, history[idx])
            /\ last_backup' = [last_backup EXCEPT ![idx] = history[idx]]
    /\ UNCHANGED <<machine, now, mounted, dest, persisted, invocation, force,
                   history, mount_status, backups_made, start, copies>>


\* ------------------------------------------------------------------ mount
\* The scan of /proc/mounts never matching (a mount point compared with its
\* trailing separator, say).
is_partition_mounted_never(mp) == FALSE

\* _is_partition_mounted: a line of /proc/mounts names the mount point.
is_partition_mounted(mp) == mp \in mounted

\* The three identifiers appended one after the other, with no elif.
mount_command_all(c) ==
    <<"mount">>
    \o (IF c.UUID # "" THEN <<"-U", c.UUID>> ELSE <<>>)
    \o (IF c.partition_label # "" THEN <<"-L", c.partition_label>> ELSE <<>>)
    \o (IF c.partition_device # "" THEN <<c.partition_device>> ELSE <<>>)
    \o <<c.mount_point>>

\* The command line of mount_partition for a section: UUID, label and device
\* are looked at in that order, then the mount point is appended.
mount_command(c) ==
    <<"mount">>
    \o (IF c.UUID # "" THEN <<"-U", c.UUID>>
        ELSE IF c.partition_label # "" THEN <<"-L", c.partition_label>>
        ELSE IF c.partition_device # "" THEN <<c.partition_device>>
        ELSE <<>>)
    \o <<c.mount_point>>

\* The exit status of mount ignored: the job goes on after a failed mount.
mount_partition_unchecked ==
    /\ pc = "mount"
    /\ LET j == idx
           mp == config[j].mount_point
       IN IF mp = "" \/ mp \in mounted
          THEN /\ mount_status' = [mount_status EXCEPT ![j] = "ALREADY_MOUNTED"]
               /\ Log(Event(IF mp = "" THEN "nomountpoint" ELSE "already", j, 0))
               /\ pc' = "make"
               /\ UNCHANGED mounted
          ELSE \E rc \in ExitCodes :
               /\ events' = events \o <<Event("argv", j, mount_command(config[j])),
                                        Event("mount", j, rc)>>
               /\ mounted' = IF rc = 0 THEN mounted \cup {mp} ELSE mounted
               /\ mount_status' = [mount_status EXCEPT ![j] = "NEWLY_MOUNTED"]
               /\ pc' = "make"
    /\ UNCHANGED <<machine, now, dest, persisted, invocation, force, history,
                   last_backup, backups_made, idx, start, copies>>

\* The test for an empty mount point left out: /proc/mounts is read and mount
\* is run for every job.
mount_partition_always ==
    /\ pc = "mount"
    /\ LET j == idx
           mp == config[j].mount_point
       IN IF is_partition_mounted(mp)
          THEN /\ mount_status' = [mount_status EXCEPT ![j] = "ALREADY_MOUNTED"]
               /\ Log(Event("already", j, 0))
               /\ pc' = "make"
               /\ UNCHANGED mounted
          ELSE \E rc \in ExitCodes :
               /\ events' = events \o <<Event("argv", j, mount_command(config[j])),
                                        Event("mount", j, rc)>>
               /\ IF rc = 0
                  THEN /\ mounted' = mounted \cup {mp}
                       /\ mount_status' = [mount_status EXCEPT ![j] = "NEWLY_MOUNTED"]
                       /\ pc' = "make"
                  ELSE /\ mount_status' = [mount_status EXCEPT ![j] = "ALREADY_MOUNTED"]
                       /\ pc' = "aborted"
                       /\ UNCHANGED mounted
    /\ UNCHANGED <<machine, now, dest, persisted, invocation, force, history,
                   last_backup, backups_made, idx, start, copies>>

\* RuntimeError out of mount_partition: BackupInstance.run calls it outside its
\* try block and BackupManager.run catches nothing.
mount_partition ==
    /\ pc = "mount"
    /\ LET j == idx
           mp == config[j].mount_point
       IN IF mp = ""
          THEN /\ mount_status' = [mount_status EXCEPT ![j] = "ALREADY_MOUNTED"]
               /\ Log(Event("nomountpoint", j, 0))
               /\ pc' = "make"
               /\ UNCHANGED mounted
          ELSE IF is_partition_mounted(mp)
          THEN /\ mount_status' = [mount_status EXCEPT ![j] = "ALREADY_MOUNTED"]
               /\ Log(Event("already", j, 0))
               /\ pc' = "make"
               /\ UNCHANGED mounted
          ELSE \E rc \in ExitCodes :
               /\ events' = events \o <<Event("argv", j, mount_command(config[j])),
                                        Event("mount", j, rc)>>
               /\ IF rc = 0
                  THEN /\ mounted' = mounted \cup {mp}
                       /\ mount_status' = [mount_status EXCEPT ![j] = "NEWLY_MOUNTED"]
                       /\ pc' = "make"
                  ELSE /\ mount_status' = [mount_status EXCEPT ![j] = "ALREADY_MOUNTED"]
                       /\ pc' = "aborted"
                       /\ UNCHANGED mounted
    /\ UNCHANGED <<machine, now, dest, persisted, invocation, force, history,
                   last_backup, backups_made, idx, start, copies>>

\* ------------------------------------------------------------------ backups
\* The unmount left out after a backup that was made.
Returned_without_unmount(j) ==
    /\ backups_made' = TRUE
    /\ pc' = "record"

\* The try block of BackupInstance.run: backups_made is set when _make_backups
\* returns; any Exception is logged and dropped; the finally clause unmounts.
Returned(j) ==
    /\ backups_made' = TRUE
    /\ pc' = "unmount"

\* The unmount placed after the try block instead of in a finally clause: an
\* exception skips it.
Raised_without_finally(j, es) ==
    /\ backups_made' = FALSE
    /\ pc' = "record"

Raised(j, es) ==
    /\ backups_made' = FALSE
    /\ pc' = "unmount"

Making(prog, types) ==
    /\ pc = "make"
    /\ program = prog
    /\ config[idx].backup_type \in types

MakeFrame ==
    UNCHANGED <<machine, now, mounted, persisted, invocation, force, history,
                last_backup, mount_status, idx, start>>

\* run_shell_command on the rsync command line: the exit status decides.
Rsync(j, rc) == Event("rsync", j, rc)

\* _make_backups, backup type not recognised: a log line, and a normal return.
make_backups ==
    /\ pc = "make"
    /\ config[idx].backup_type = "other"
    /\ Log(Event("unrecognised", idx, 0))
    /\ Returned(idx)
    /\ UNCHANGED <<dest, copies>>
    /\ MakeFrame

\* os.path.join given to_backup whole: the leading separator is kept.
get_backup_folder_name_whole(rebase_root) ==
    IF rebase_root THEN to_backup ELSE <<>>

\* _get_backup_folder_name: the path of the write target inside the folder,
\* to_backup without its leading separator under rebase_root.
get_backup_folder_name(rebase_root) ==
    IF rebase_root
    THEN IF to_backup[1] = "/" THEN Tail(to_backup) ELSE to_backup
    ELSE <<>>

\* _get_backup_folder_basename, then _get_backup_folder_name: both create
\* what they name.
Allocated(j, base) ==
    makedirs(dest[j], base, get_backup_folder_name(config[j].rebase_root))

\* source/ink.py, incremental, nolinks and full: the folder is allocated, then
\* self._get_base_command() raises AttributeError (the method is named
\* _get_base_rsync_command); rsync is never run.
make_backups_common ==
    /\ Making("source/ink.py", {"incremental", "nolinks", "full"})
    /\ LET j == idx
           base == get_backup_folder_basename(dest[j].folders, now)
       IN /\ dest' = [dest EXCEPT ![j] = Allocated(j, base)]
          /\ Log(Event("error", j, 0))
          /\ Raised(j, "AttributeError")
    /\ UNCHANGED copies
    /\ MakeFrame

\* source/ink.py, snapshot: _add_exclude_and_log_files reads self._mount_point,
\* which BackupInstance never sets: AttributeError before rsync is run.
make_backups_snapshot ==
    /\ Making("source/ink.py", {"snapshot"})
    /\ Log(Event("error", idx, 0))
    /\ Raised(idx, "AttributeError")
    /\ UNCHANGED <<dest, copies>>
    /\ MakeFrame

\* run_shell_command on an rsync command line: the destination after rsync
\* came to the entries `done` of the directory being backed up.
run_shell_command(d, cmd, done) ==
    [d EXCEPT !.files = rsync(@, cmd, SourceListing(config[cmd.job].nested),
                              d.serial + 1, done),
              !.serial = @ + 1]

\* The link replaced before rsync has run.
RunAndLink_early(j, d, base, cmd) ==
    \E rc \in ExitCodes :
        /\ commands' = Append(commands, cmd)
        /\ IF rc = 0
           THEN /\ events' = events \o <<Rsync(j, rc)>>
                /\ dest' = [dest EXCEPT ![j] =
                               replace_symlink(run_shell_command(d, cmd, Entries), base)]
                /\ latest' = [latest EXCEPT ![j] = base]
                /\ Returned(j)
           ELSE /\ events' = events \o <<Rsync(j, rc), Event("error", j, 0)>>
                /\ \E done \in Progress :
                       dest' = [dest EXCEPT ![j] =
                                   replace_symlink(run_shell_command(d, cmd, done), base)]
                /\ UNCHANGED latest
                /\ Raised(j, "RuntimeError")

\* The exit status of rsync not looked at: the link is replaced and the backup
\* step returns whatever rsync did.
RunAndLink_unchecked(j, d, base, cmd) ==
    \E rc \in ExitCodes : \E done \in Progress :
        /\ rc = 0 => done = Entries
        /\ commands' = Append(commands, cmd)
        /\ events' = events \o <<Rsync(j, rc)>>
        /\ dest' = [dest EXCEPT ![j] =
                       replace_symlink(run_shell_command(d, cmd, done), base)]
        /\ latest' = [latest EXCEPT ![j] = base]
        /\ Returned(j)

\* The allocated folder removed again when rsync exits non-zero.
RunAndLink_cleaned(j, d, base, cmd) ==
    \E rc \in ExitCodes :
        /\ commands' = Append(commands, cmd)
        /\ IF rc = 0
           THEN /\ events' = events \o <<Rsync(j, rc)>>
                /\ dest' = [dest EXCEPT ![j] =
                               replace_symlink(run_shell_command(d, cmd, Entries), base)]
                /\ latest' = [latest EXCEPT ![j] = base]
                /\ Returned(j)
           ELSE /\ events' = events \o <<Rsync(j, rc), Event("error", j, 0)>>
                /\ dest' = [dest EXCEPT ![j] = rmtree(d, base)]
                /\ UNCHANGED latest
                /\ Raised(j, "RuntimeError")

\* The end of a rotating backup: rsync, then the link is replaced.  An rsync
\* that exits non-zero may have come to any part of the directory.
RunAndLink(j, d, base, cmd) ==
    \E rc \in ExitCodes :
        /\ commands' = Append(commands, cmd)
        /\ IF rc = 0
           THEN /\ events' = events \o <<Rsync(j, rc)>>
                /\ dest' = [dest EXCEPT ![j] =
                               replace_symlink(run_shell_command(d, cmd, Entries), base)]
                /\ latest' = [latest EXCEPT ![j] = base]
                /\ Returned(j)
           ELSE /\ events' = events \o <<Rsync(j, rc), Event("error", j, 0)>>
                /\ \E done \in Progress :
                       dest' = [dest EXCEPT ![j] = run_shell_command(d, cmd, done)]
                /\ UNCHANGED latest
                /\ Raised(j, "RuntimeError")

\* --link-dest appended without the os.path.isdir test.
LinkDest_always(d) == <<d.link, <<>>>>

\* --link-dest=<backup_folder>/<link_name>: the folder the link names.
LinkDest(d) == IF IsDir(d) THEN <<d.link, <<>>>> ELSE NoLink

\* ink.py, incremental: --link-dest when the link names a folder.
legacy_make_backups_incremental ==
    /\ Making("ink.py", {"incremental"})
    /\ LET j == idx
           base == get_backup_folder_basename(dest[j].folders, now)
           dir == get_backup_folder_name(config[j].rebase_root)
           d == Allocated(j, base)
       IN RunAndLink(j, d, base,
                     Command(j, <<base, dir>>, LinkDest(d), NoLink, FALSE, {}))
    /\ MakeFrame

\* full given the --link-dest of incremental.
legacy_make_backups_full_linked ==
    /\ Making("ink.py", {"full"})
    /\ LET j == idx
           base == get_backup_folder_basename(dest[j].folders, now)
           dir == get_backup_folder_name(config[j].rebase_root)
           d == Allocated(j, base)
       IN RunAndLink(j, d, base,
                     Command(j, <<base, dir>>, LinkDest(d), NoLink, FALSE, {}))
    /\ MakeFrame

\* ink.py, full.
legacy_make_backups_full ==
    /\ Making("ink.py", {"full"})
    /\ LET j == idx
           base == get_backup_folder_basename(dest[j].folders, now)
           dir == get_backup_folder_name(config[j].rebase_root)
           d == Allocated(j, base)
       IN RunAndLink(j, d, base, Command(j, <<base, dir>>, NoLink, NoLink, FALSE, {}))
    /\ MakeFrame

\* ink.py, nolinks: when the link names a folder, the new folder is removed,
\* the previous one is renamed to it (FileNotFoundError when the link named
\* the new folder itself) and os.mkdir makes <previous>_bak (FileExistsError
\* when that name is taken), which is rsync's --backup-dir.
legacy_make_backups_nolinks ==
    /\ Making("ink.py", {"nolinks"})
    /\ LET j == idx
           base == get_backup_folder_basename(dest[j].folders, now)
           dir == get_backup_folder_name(config[j].rebase_root)
           d == Allocated(j, base)
           prev == d.link
           moved == rename(rmtree(d, base), prev, base)
       IN IF ~IsDir(d)
          THEN RunAndLink(j, d, base, Command(j, <<base, dir>>, NoLink, NoLink, FALSE, {}))
          ELSE IF prev = base
          THEN /\ Log(Event("error", j, 0))
               /\ dest' = [dest EXCEPT ![j] = rmtree(d, base)]
               /\ Raised(j, "FileNotFoundError")
               /\ UNCHANGED copies
          ELSE IF Bak(prev) \in moved.folders
          THEN /\ Log(Event("error", j, 0))
               /\ dest' = [dest EXCEPT ![j] = moved]
               /\ Raised(j, "FileExistsError")
               /\ UNCHANGED copies
          ELSE RunAndLink(j, makedirs(moved, Bak(prev), dir), base,
                          Command(j, <<base, dir>>, NoLink, <<Bak(prev), dir>>, FALSE, {}))
    /\ MakeFrame

\* snapshot without --delete.
legacy_make_backups_snapshot_kept ==
    /\ Making("ink.py", {"snapshot"})
    /\ LET j == idx
           cmd == Command(j, <<Root, <<>>>>, NoLink, NoLink, FALSE, {})
       IN \E rc \in ExitCodes :
           /\ commands' = Append(commands, cmd)
           /\ IF rc = 0
              THEN /\ events' = events \o <<Rsync(j, rc)>>
                   /\ dest' = [dest EXCEPT ![j] = run_shell_command(@, cmd, Entries)]
                   /\ Returned(j)
              ELSE /\ events' = events \o <<Rsync(j, rc), Event("error", j, 0)>>
                   /\ \E done \in Progress :
                          dest' = [dest EXCEPT ![j] = run_shell_command(@, cmd, done)]
                   /\ Raised(j, "RuntimeError")
    /\ UNCHANGED latest
    /\ MakeFrame

\* snapshot written to a rotation folder and linked, as the other types are.
legacy_make_backups_snapshot_rotated ==
    /\ Making("ink.py", {"snapshot"})
    /\ LET j == idx
           base == get_backup_folder_basename(dest[j].folders, now)
           d == makedirs(dest[j], base, <<>>)
       IN RunAndLink(j, d, base, Command(j, <<base, <<>>>>, NoLink, NoLink, TRUE, {}))
    /\ MakeFrame

\* ink.py, snapshot: rsync --delete into the backup folder itself.
legacy_make_backups_snapshot ==
    /\ Making("ink.py", {"snapshot"})
    /\ LET j == idx
           cmd == Command(j, <<Root, <<>>>>, NoLink, NoLink, TRUE, {})
       IN \E rc \in ExitCodes :
           /\ commands' = Append(commands, cmd)
           /\ IF rc = 0
              THEN /\ events' = events \o <<Rsync(j, rc)>>
                   /\ dest' = [dest EXCEPT ![j] = run_shell_command(@, cmd, Entries)]
                   /\ Returned(j)
              ELSE /\ events' = events \o <<Rsync(j, rc), Event("error", j, 0)>>
                   /\ \E done \in Progress :
                          dest' = [dest EXCEPT ![j] = run_shell_command(@, cmd, done)]
                   /\ Raised(j, "RuntimeError")
    /\ UNCHANGED latest
    /\ MakeFrame

\* ------------------------------------------------------------------ unmount
\* The finally clause of BackupInstance.run: a RuntimeError out of it leaves
\* run() before its return statement and nothing catches it before main().
unmount_partition_if_needed ==
    /\ pc = "unmount"
    /\ LET j == idx
           mp == config[j].mount_point
       IN IF mount_status[j] = "NEWLY_MOUNTED"
          THEN \E rc \in ExitCodes :
               /\ Log(Event("umount", j, rc))
               /\ IF rc = 0
                  THEN /\ mounted' = mounted \ {mp}
                       /\ pc' = "record"
                  ELSE /\ pc' = "aborted"
                       /\ UNCHANGED mounted
          ELSE /\ pc' = "record"
               /\ UNCHANGED <<mounted, events>>
    /\ UNCHANGED <<machine, now, dest, persisted, invocation, force, history,
                   last_backup, mount_status, backups_made, idx, start, copies>>

\* ------------------------------------------------------------------ history
\* BackupManager.run after backup_instance.run() returned: a success is entered
\* in the in-memory history with int(time.time()).
read_dict ==
    /\ pc = "record"
    /\ IF backups_made
       THEN /\ history' = [history EXCEPT ![idx] = IntTime(now)]
            /\ Log(Event("record", idx, now))
       ELSE UNCHANGED <<history, events>>
    /\ AfterJob(idx)
    /\ UNCHANGED <<machine, now, mounted, dest, persisted, invocation, force,
                   last_backup, mount_status, backups_made, start, copies>>

\* The history file written with the sections of the configuration file only.
write_history_configured ==
    /\ pc = "flush"
    /\ persisted' = [s \in HistorySections |->
                         IF s \in Jobs THEN history[s] ELSE NoRecord]
    /\ pc' = "done"
    /\ UNCHANGED <<machine, now, mounted, dest, invocation, force, history,
                   last_backup, mount_status, backups_made, idx, events, start,
                   copies>>

\* After the loop: the history is written to the history file.
write_history ==
    /\ pc = "flush"
    /\ persisted' = history
    /\ pc' = "done"
    /\ UNCHANGED <<machine, now, mounted, dest, invocation, force, history,
                   last_backup, mount_status, backups_made, idx, events, start,
                   copies>>

\* ------------------------------------------------------------------ spec
Next ==
    \/ Tick
    \/ main
    \/ legacy_main
    \/ BackupManager_run
    \/ legacy_BackupManager_run
    \/ mount_partition
    \/ make_backups
    \/ make_backups_common
    \/ make_backups_snapshot
    \/ legacy_make_backups_incremental
    \/ legacy_make_backups_full
    \/ legacy_make_backups_nolinks
    \/ legacy_make_backups_snapshot
    \/ unmount_partition_if_needed
    \/ read_dict
    \/ write_history

Spec == Init /\ [][Next]_vars

\* ------------------------------------------------------------------ files
\* The same program over a directory whose files change between invocations:
\* one job of any type, rebase_root and place of the backup folder, with no
\* mount point, followed by a job of an unrecognised type.
Last ==
    Configured([backup_type |-> "other", mount_point |-> "", frequency |-> 0,
                rebase_root |-> TRUE, nested |-> FALSE])

FileConfigurations ==
    {c \in [Jobs -> {Configured(r) :
                        r \in [backup_type : BackupTypes, mount_point : {""},
                               frequency : {0}, rebase_root : BOOLEAN,
                               nested : BOOLEAN]}] :
         \A j \in Jobs : j > 1 => c[j] = Last}

InitFiles == Booted(FileConfigurations, {{}}, {[j \in Jobs |-> 0]}, {Original})

\* Between two invocations a file of the directory is written (a new version)
\* or removed.
Edit ==
    /\ pc \in {"done", "aborted"}
    /\ invocation < MaxInvocations
    /\ \E n \in Names :
           /\ source[n] # Absent
           /\ \/ source[n] < MaxVersion /\ source' = [source EXCEPT ![n] = @ + 1]
              \/ source' = [source EXCEPT ![n] = Absent]
    /\ UNCHANGED <<program, config, now, mounted, dest, persisted, invocation, force,
                   history, last_backup, mount_status, backups_made, idx, pc, events,
                   start, copies, options>>

NextFiles == Next \/ Edit

SpecFiles == InitFiles /\ [][NextFiles]_vars


\* ------------------------------------------------------------------ load
\* The same program over configuration files a section of which may be
\* written in any way: the texts of the options _check_config examines.
Sections ==
    [to_backup : {<<>>, <<"s">>, <<"/">>, <<"/", "s">>, <<"/", "s", "/">>,
                  <<"/", "s", "/", "/">>},
     backup_folder : {<<>>, <<"b">>, <<"/", "b">>, <<"/", "b", "/">>},
     mount_point : {MountText(mp) : mp \in MountPoints \cup {"mnt"}},
     frequency_seconds : {<<>>, <<"0">>, <<"1">>, <<"-", "1">>, <<"x">>},
     link_name : {<<"c">>},
     exclude_file : {<<>>, <<"e", "/">>}]

\* The attributes of the instance of a section: its mount point once the
\* trailing slash is removed, its frequency as getint reads it.
Written(s) ==
    [Reference EXCEPT
        !.section = s,
        !.mount_point = CHOOSE mp \in MountPoints \cup {"mnt"} :
                            MountText(mp) = strip(s.mount_point),
        !.frequency = IF isint(s.frequency_seconds)
                      THEN int(s.frequency_seconds) ELSE 0]

\* The configuration files: at most one section departs from the reference
\* section, in its backup type, in the text of one option, or in the text of
\* the mount point and of one other option.
Departures(s) == {o \in DOMAIN s : s[o] # Reference.section[o]}
Departing == {s \in Sections : Cardinality(Departures(s) \ {"mount_point"}) <= 1}

LoadConfigurations ==
    {c \in [Jobs -> {r \in JobRecords : r.frequency = 0}
                        \cup {Written(s) : s \in Departing}] :
        Cardinality({j \in Jobs : c[j] # Reference}) <= 1}

InitLoad == Booted(LoadConfigurations, {{}}, {[j \in Jobs |-> 0]}, {Empty})

NextLoad == Next \/ ConfigRejected

SpecLoad == InitLoad /\ [][NextLoad]_vars


\* ------------------------------------------------------------------ repeat
\* The same program run again and again, up to MaxRuns invocations, over a
\* directory that does not change: one incremental, nolinks or full job with
\* no mount point, followed by a job of an unrecognised type.
RepeatConfigurations ==
    {c \in FileConfigurations :
        /\ c[1].backup_type \in {"incremental", "nolinks", "full"}
        /\ c[1].rebase_root /\ ~c[1].nested}

InitRepeat == Booted(RepeatConfigurations, {{}}, {[j \in Jobs |-> 0]}, {Original})

main_repeated ==
    /\ program = "source/ink.py"
    /\ Begin(MaxRuns)
    /\ last_backup' = [j \in Jobs |-> IF persisted[j] = NoRecord THEN 0 ELSE persisted[j]]

legacy_main_repeated ==
    /\ program = "ink.py"
    /\ Begin(MaxRuns)
    /\ last_backup' = [j \in Jobs |-> 0]

NextRepeat ==
    \/ Tick
    \/ main_repeated
    \/ legacy_main_repeated
    \/ BackupManager_run
    \/ legacy_BackupManager_run
    \/ mount_partition
    \/ make_backups
    \/ make_backups_common
    \/ legacy_make_backups_incremental
    \/ legacy_make_backups_full
    \/ legacy_make_backups_nolinks
    \/ unmount_partition_if_needed
    \/ read_dict
    \/ write_history

SpecRepeat == InitRepeat /\ [][NextRepeat]_vars

\* ------------------------------------------------------------------ stop
\* ink.py with _replace_symlink taken step by step, os.unlink then os.symlink,
\* on a machine where the process may be stopped at any point of an
\* invocation.
\* What the backup step of a rotating job sets up before rsync is run: the
\* destination, the allocated folder and the rsync command line, or the
\* exception the step raises before rsync.
Rotation(j) ==
    LET base == get_backup_folder_basename(dest[j].folders, now)
        dir == get_backup_folder_name(config[j].rebase_root)
        d == Allocated(j, base)
        prev == d.link
        moved == rename(rmtree(d, base), prev, base)
        type == config[j].backup_type
        plain(link_dest) ==
            [raises |-> "", d |-> d, base |-> base,
             cmd |-> Command(j, <<base, dir>>, link_dest, NoLink, FALSE, {})]
    IN CASE type = "incremental" -> plain(LinkDest(d))
         [] type = "nolinks" /\ IsDir(d) /\ prev = base ->
                [plain(NoLink) EXCEPT !.raises = "FileNotFoundError",
                                      !.d = rmtree(d, base)]
         [] type = "nolinks" /\ IsDir(d) /\ prev # base /\ Bak(prev) \in moved.folders ->
                [plain(NoLink) EXCEPT !.raises = "FileExistsError", !.d = moved]
         [] type = "nolinks" /\ IsDir(d) /\ prev # base /\ Bak(prev) \notin moved.folders ->
                [raises |-> "", d |-> makedirs(moved, Bak(prev), dir), base |-> base,
                 cmd |-> Command(j, <<base, dir>>, NoLink, <<Bak(prev), dir>>, FALSE, {})]
         [] OTHER -> plain(NoLink)

\* The backup step of an incremental, nolinks or full job up to the call of
\* _replace_symlink.
legacy_make_backups_rotating ==
    /\ Making("ink.py", {"incremental", "nolinks", "full"})
    /\ LET j == idx
           r == Rotation(j)
       IN IF r.raises # ""
          THEN /\ Log(Event("error", j, 0))
               /\ dest' = [dest EXCEPT ![j] = r.d]
               /\ Raised(j, r.raises)
               /\ UNCHANGED copies
          ELSE \E rc \in ExitCodes :
               /\ commands' = Append(commands, r.cmd)
               /\ IF rc = 0
                  THEN /\ events' = events \o <<Rsync(j, rc)>>
                       /\ dest' = [dest EXCEPT ![j] =
                                      run_shell_command(r.d, r.cmd, Entries)]
                       /\ pc' = "unlink"
                       /\ UNCHANGED <<latest, backups_made>>
                  ELSE /\ events' = events \o <<Rsync(j, rc), Event("error", j, 0)>>
                       /\ \E done \in Progress :
                              dest' = [dest EXCEPT ![j] =
                                          run_shell_command(r.d, r.cmd, done)]
                       /\ UNCHANGED latest
                       /\ Raised(j, "RuntimeError")
    /\ MakeFrame

\* os.unlink with no handler: a missing link ends the backup step.
os_unlink_strict ==
    /\ pc = "unlink"
    /\ IF dest[idx].link = NoLink
       THEN /\ Log(Event("error", idx, 0))
            /\ Raised(idx, "FileNotFoundError")
            /\ UNCHANGED dest
       ELSE /\ dest' = [dest EXCEPT ![idx].link = NoLink]
            /\ pc' = "symlink"
            /\ UNCHANGED <<events, backups_made>>
    /\ UNCHANGED copies
    /\ MakeFrame

\* os.unlink(symlink_latest_backup_folder); FileNotFoundError is passed over.
os_unlink ==
    /\ pc = "unlink"
    /\ dest' = [dest EXCEPT ![idx].link = NoLink]
    /\ pc' = "symlink"
    /\ UNCHANGED <<events, backups_made, copies>>
    /\ MakeFrame

\* os.symlink to the folder rsync wrote, the last thing the backup step does.
os_symlink ==
    /\ pc = "symlink"
    /\ LET base == commands[Len(commands)].target[1]
       IN /\ dest' = [dest EXCEPT ![idx].link = base]
          /\ latest' = [latest EXCEPT ![idx] = base]
    /\ Returned(idx)
    /\ UNCHANGED <<events, commands>>
    /\ MakeFrame

\* The process is stopped; the log notes whether it was between os.unlink and
\* os.symlink (1) or not (0).
Stop ==
    /\ pc \notin {"start", "done", "aborted"}
    /\ Log(Event("stop", idx, IF pc = "symlink" THEN 1 ELSE 0))
    /\ pc' = "aborted"
    /\ UNCHANGED <<machine, now, mounted, dest, persisted, invocation, force,
                   history, last_backup, mount_status, backups_made, idx, start,
                   copies>>

StopConfigurations ==
    {c \in FileConfigurations :
        /\ c[1].backup_type \in {"incremental", "nolinks", "full"}
        /\ c[1].rebase_root /\ ~c[1].nested}

InitStop ==
    /\ Booted(StopConfigurations, {{}}, {[j \in Jobs |-> 0]}, {Original})
    /\ program = "ink.py"

NextStop ==
    \/ Tick
    \/ legacy_main
    \/ legacy_BackupManager_run
    \/ mount_partition
    \/ make_backups
    \/ legacy_make_backups_rotating
    \/ os_unlink
    \/ os_symlink
    \/ Stop
    \/ unmount_partition_if_needed
    \/ read_dict
    \/ write_history

SpecStop == InitStop /\ [][NextStop]_vars

\* ------------------------------------------------------------------ mount
\* The same program over sections that name the partition in any way: by
\* UUID, by label, by device, by several of them or by none (/etc/fstab).
Identified(r, uuid, label, dev) ==
    [r EXCEPT !.UUID = uuid, !.partition_label = label, !.partition_device = dev]

MountRecords ==
    {Identified(r, uuid, label, dev) :
        r \in {x \in JobRecords : x.backup_type = "incremental" /\ x.frequency = 0},
        uuid \in {"", "uuid"}, label \in {"", "label"}, dev \in {"", "/dev/sdb1"}}

MountConfigurations ==
    {c \in [Jobs -> {r \in JobRecords : r.frequency = 0} \cup MountRecords] :
        Cardinality({j \in Jobs : c[j] # Reference}) <= 1}

InitMount ==
    Booted(MountConfigurations, SUBSET (MountPoints \ {""}), {[j \in Jobs |-> 0]},
           {Empty})

SpecMount == InitMount /\ [][Next]_vars

\* ------------------------------------------------------------------ claims
Recognised == {"incremental", "nolinks", "snapshot", "full"}
Tools == {"mount", "rsync", "umount"}

In(log, kind, j) == \E i \in 1..Len(log) : log[i][1] = kind /\ log[i][2] = j

\* The loop over the jobs has come to job j.
Reached(j) == Logged("run", j) \/ Logged("skip", j) \/ Logged("nosection", j)
\* Job j was found due and its processing has ended.
Ran(j) == Logged("run", j)
JobOver(j) == idx > j \/ (idx = j /\ pc = "aborted")
Ended == pc \in {"done", "aborted"}
AllToolsOk(j) ==
    \A i \in 1..Len(events) :
        (events[i][1] \in Tools /\ events[i][2] = j) => events[i][3] = 0
NoTool(j) == \A k \in Tools : ~Logged(k, j)
\* The last_backup the invocation found for job j (0 when none is stored).
Stored(j) == IF start.history[j] = NoRecord THEN 0 ELSE start.history[j]
Untouched(j) ==
    /\ dest[j] = start.dest[j]
    /\ history[j] = start.history[j]
    /\ persisted[j] = start.history[j]

\* C1: the step that decides job j makes new backups (goes on to mount) if and
\* only if force is set or now - lastRun > frequency; otherwise, and so at
\* now - lastRun = frequency, the job is skipped.
C1_Staleness ==
    [][(pc = "run" /\ events' # events /\ ~In(events', "nosection", idx)) =>
          LET due == force \/ now - Stored(idx) * TicksPerSec
                                  > config[idx].frequency * TicksPerSec
          IN /\ due <=> (pc' = "mount" /\ In(events', "run", idx))
             /\ ~due <=> (pc' # "mount" /\ In(events', "skip", idx))]_vars

C1_Witness ==
    \E j \in Jobs :
        /\ Len(events) > 0 /\ events[Len(events)] = <<"skip", j, 0>>
        /\ config[j].frequency > 0
        /\ now - Stored(j) * TicksPerSec = config[j].frequency * TicksPerSec

\* C2: in an invocation without force, a job whose stored record is still
\* within its frequency interval (now - lastRun <= frequency) has no effect:
\* no tool is run for it, its destination (folders and link) and its history
\* record, in memory and in the history file, are those the invocation found;
\* and so it stays for a skipped job whatever time passes afterwards.
C2_NotDueNoEffect ==
    \A j \in Jobs :
        /\ (/\ invocation >= 1 /\ ~force
            /\ start.history[j] # NoRecord
            /\ now - start.history[j] * TicksPerSec <= config[j].frequency * TicksPerSec)
           => (NoTool(j) /\ ~Ran(j) /\ Untouched(j))
        /\ Logged("skip", j) => (NoTool(j) /\ ~Ran(j) /\ Untouched(j))

\* A record a successful run of the program wrote (the history file starts
\* with 0 or nothing), found by a later invocation that skipped the job.
C2_Witness ==
    \E j \in Jobs :
        /\ invocation = 2 /\ pc = "done"
        /\ start.history[j] >= 1
        /\ Logged("skip", j)

\* C3 (as claimed): a due job of a recognised type whose tools all exited 0
\* is recorded as a success, with int() of the time read when it ended.
C3_Claim ==
    \A j \in Jobs :
        (Ran(j) /\ JobOver(j) /\ config[j].backup_type \in Recognised /\ AllToolsOk(j))
        => \E i \in 1..Len(events) :
              /\ events[i][1] = "record" /\ events[i][2] = j
              /\ history[j] = IntTime(events[i][3])

\* C4: a job that found its mount point in the mount table never runs umount
\* and leaves the volume mounted; umount is run only by a job whose own mount
\* exited 0.
C4_MountedStaysMounted ==
    \A j \in Jobs :
        /\ LoggedWith("run", j, 1) =>
              (~Logged("umount", j) /\ config[j].mount_point \in mounted)
        /\ Logged("umount", j) => LoggedWith("mount", j, 0)

C4_Witness ==
    \E j \in Jobs :
        /\ LoggedWith("run", j, 1) /\ Logged("error", j) /\ JobOver(j)
        /\ \E k \in Jobs : LoggedWith("run", k, 1) /\ Logged("record", k)

\* C5: a job whose mount exited 0 runs umount exactly once before it ends, and
\* before anything is done for a later job, whether its backup step returned
\* or raised.
C5_Release ==
    \A j \in Jobs :
        LoggedWith("mount", j, 0) =>
            /\ Count("umount", j) <= 1
            /\ JobOver(j) => Count("umount", j) = 1
            /\ \A i \in 1..Len(events) :
                  events[i][2] > j =>
                      \E h \in 1..(i - 1) : events[h][1] = "umount" /\ events[h][2] = j

C5_Witness ==
    \E j \in Jobs :
        /\ LoggedWith("mount", j, 0) /\ Logged("error", j)
        /\ Count("umount", j) = 1 /\ Reached(j + 1)

\* C6 (as claimed): after rsync exited non-zero for job i, the loop still
\* comes to every later job.
C6_Claim ==
    \A i \in Jobs :
        (LoggedWith("rsync", i, 1) /\ Ended) =>
            \A k \in Jobs : k > i => Reached(k)

\* C7 (as claimed): after mount exited non-zero for job i, the loop still
\* comes to every later job.
C7_Claim ==
    \A i \in Jobs :
        (LoggedWith("mount", i, 1) /\ Ended) =>
            \A k \in Jobs : k > i => Reached(k)

\* C8: when rsync exited non-zero for a job that is not a snapshot job, the
\* `current` link is the one the invocation found and the job's history
\* record, in memory and in the history file, is not updated.
C8_CopyFailedKeepsPointer ==
    \A j \in Jobs :
        (LoggedWith("rsync", j, 1) /\ config[j].backup_type # "snapshot") =>
            /\ dest[j].link = start.dest[j].link
            /\ history[j] = start.history[j]
            /\ persisted[j] = start.history[j]
            /\ ~Logged("record", j)

C8_Witness ==
    \E j \in Jobs :
        /\ LoggedWith("rsync", j, 1) /\ config[j].backup_type # "snapshot"
        /\ start.dest[j].link # NoLink
        /\ pc = "done"

\* C9: when mount exited non-zero for a job, no rsync and no umount is run for
\* it, its destination holds no new folder, its history record is not updated
\* and the volume is not mounted.
C9_MountFailed ==
    \A j \in Jobs :
        LoggedWith("mount", j, 1) =>
            /\ ~Logged("rsync", j) /\ ~Logged("umount", j)
            /\ Untouched(j)
            /\ ~Logged("record", j)
            /\ config[j].mount_point \notin mounted

C9_Witness ==
    \E j \in Jobs : LoggedWith("mount", j, 1) /\ pc = "aborted" /\ invocation = 2

\* C10 (as claimed): a job whose rsync exited 0 and whose umount exited
\* non-zero is recorded in the history.
C10_Claim ==
    \A j \in Jobs :
        (LoggedWith("rsync", j, 0) /\ LoggedWith("umount", j, 1) /\ Ended) =>
            Logged("record", j)

\* C11 (as claimed): an invocation that began processing jobs ends with the
\* history written, and the history file then holds the time recorded for
\* every job that succeeded in it (an invocation that could not read a job's
\* record from the history file is left aside).
C11_Claim ==
    (invocation >= 1 /\ Ended /\ \A j \in Jobs : ~Logged("nosection", j)) =>
        /\ pc = "done"
        /\ \A j \in Jobs : \A i \in 1..Len(events) :
              (events[i][1] = "record" /\ events[i][2] = j) =>
                  persisted[j] = IntTime(events[i][3])

Rotating == {"incremental", "nolinks", "full"}

\* C12 (as claimed): for a job of a rotating type, whenever an invocation has
\* run to its end and a run of the job has succeeded, the `current` link
\* names an existing folder, the one the most recent successful run made.
C12_Claim ==
    \A j \in Jobs :
        (config[j].backup_type \in Rotating /\ pc = "done" /\ latest[j] # NoLink) =>
            /\ dest[j].link \in dest[j].folders
            /\ dest[j].link = latest[j]

\* C12 (amended): for a job of a rotating type, whenever the invocation is
\* over and a run of the job has succeeded, the `current` link holds the name
\* the most recent successful run gave its folder; for incremental and full
\* that folder exists; for nolinks it exists unless a later run failed after
\* renaming it, which leaves the link dangling beside <that name>_bak.
C12_LinkNamesLatest ==
    \A j \in Jobs :
        (config[j].backup_type \in Rotating /\ Ended /\ latest[j] # NoLink) =>
            /\ dest[j].link = latest[j]
            /\ config[j].backup_type \in {"incremental", "full"} =>
                  dest[j].link \in dest[j].folders
            /\ config[j].backup_type = "nolinks" =>
                  (dest[j].link \in dest[j].folders \/ Bak(dest[j].link) \in dest[j].folders)

C12_Witness ==
    \E j \in Jobs :
        /\ config[j].backup_type = "nolinks" /\ Ended
        /\ latest[j] # NoLink /\ dest[j].link = latest[j]
        /\ dest[j].link \notin dest[j].folders
        /\ LoggedWith("rsync", j, 1)

\* The backup step of job idx returns normally in this step.
Succeeds == pc = "make" /\ pc' = "unmount" /\ backups_made'

\* C13: when a run of an incremental, nolinks or full job succeeds, the folder
\* the `current` link names then holds every file of the directory being
\* backed up, at the version the directory holds; so also on the first run,
\* when there was no link.
C13_CurrentMirrorsSource ==
    [][(Succeeds /\ config[idx].backup_type \in Rotating) =>
          /\ dest'[idx].link \in dest'[idx].folders
          /\ \A n \in Names :
                source[n] # Absent =>
                    \E e \in dest'[idx].files :
                        e[1] = dest'[idx].link /\ e[3] = n /\ e[5] = source[n]]_vars

C13_Witness ==
    \E j \in Jobs :
        /\ config[j].backup_type = "nolinks" /\ pc = "record" /\ idx = j /\ backups_made
        /\ start.dest[j].link # NoLink
        /\ \E n \in Names : source[n] = MaxVersion
        /\ \A n \in Names :
              source[n] # Absent =>
                  \E e \in dest[j].files :
                      e[1] = dest[j].link /\ e[3] = n /\ e[5] = source[n]

\* The files of one folder, wherever inside it.
FilesOf(files, folder) == {e \in files : e[1] = folder}
\* Job j has just been backed up again: its run of this invocation succeeded,
\* and so had the run that made the folder P the invocation found linked.
Regenerated(j, type) ==
    /\ config[j].backup_type = type
    /\ idx = j /\ pc = "record" /\ backups_made
    /\ start.dest[j].link # NoLink
    /\ start.dest[j].link \in start.dest[j].folders

\* C14 (as claimed): incremental, after two successive successful runs: a
\* file whose version differs in the two generations is two storage objects,
\* and a file at the same version in both is one storage object (a hard
\* link).
C14_Claim ==
    \A j \in Jobs :
        Regenerated(j, "incremental") =>
            \A e1 \in FilesOf(dest[j].files, start.dest[j].link) :
            \A e2 \in FilesOf(dest[j].files, dest[j].link) :
                e1[3] = e2[3] => (e1[5] = e2[5] <=> e1[4] = e2[4])

\* C15: full, after two successive successful runs: no file of the new
\* generation is a storage object of the previous one, and the previous
\* folder holds what it held.
C15_FullSharesNothing ==
    \A j \in Jobs :
        Regenerated(j, "full") =>
            /\ dest[j].link # start.dest[j].link
            /\ \A e1 \in FilesOf(dest[j].files, start.dest[j].link) :
               \A e2 \in FilesOf(dest[j].files, dest[j].link) :
                   ~(e1[3] = e2[3] /\ e1[4] = e2[4])
            /\ FilesOf(dest[j].files, start.dest[j].link)
                   = FilesOf(start.dest[j].files, start.dest[j].link)

C15_Witness ==
    \E j \in Jobs :
        /\ Regenerated(j, "full") /\ ~config[j].rebase_root
        /\ \E n \in Names : source[n] = 1
        /\ \E n \in Names : source[n] = MaxVersion

\* C16 (as claimed): nolinks, after a successful run that found the link
\* naming folder P: P_bak holds exactly the previous versions of the files
\* written or removed in the directory since, and the folder the link names
\* holds every file of the directory at its version.
C16_Claim ==
    \A j \in Jobs :
        Regenerated(j, "nolinks") =>
            LET P == start.dest[j].link
                src == SourceListing(config[j].nested)
            IN /\ FilesOf(dest[j].files, Bak(P))
                     = {<<Bak(P), e[2], e[3], e[4], e[5]>> :
                           e \in {f \in FilesOf(start.dest[j].files, P) : src[f[3]] # f[5]}}
               /\ \A n \in Names :
                     src[n] # Absent =>
                         \E e \in FilesOf(dest[j].files, dest[j].link) :
                             e[3] = n /\ e[5] = src[n]

\* The files of the backup folder of a snapshot job.
Mirror(d) == Listing(d.files, <<Root, <<>>>>)

\* C17: snapshot, after a successful run: the backup folder holds the entries
\* of the directory being backed up, each at its version, and nothing the
\* directory no longer holds; a file the folder already held at that version
\* is the same file as before (not written again), and a file written again
\* is at a later version.
C17_SnapshotMirrors ==
    \A j \in Jobs :
        (config[j].backup_type = "snapshot" /\ idx = j /\ pc = "record" /\ backups_made) =>
            LET src == SourceListing(config[j].nested)
            IN /\ \A n \in Entries :
                     IF src[n] = Absent
                     THEN ~\E e \in Mirror(dest[j]) : e[3] = n
                     ELSE \E e \in Mirror(dest[j]) : e[3] = n /\ e[5] = src[n]
               /\ \A e0 \in Mirror(start.dest[j]) : \A e \in Mirror(dest[j]) :
                     e0[3] = e[3] => IF e0[5] = e[5] THEN e = e0 ELSE e[5] > e0[5]

C17_Witness ==
    \E j \in Jobs :
        /\ config[j].backup_type = "snapshot" /\ idx = j /\ pc = "record" /\ backups_made
        /\ \E e0 \in Mirror(start.dest[j]) :
              SourceListing(config[j].nested)[e0[3]] = Absent
        /\ \E e0 \in Mirror(start.dest[j]) : e0 \in Mirror(dest[j])

\* C18: a snapshot job never rotates: its destination holds no rotation
\* folder and no `current` link, and every rsync it runs writes to the backup
\* folder itself, without --link-dest.
C18_SnapshotNeverRotates ==
    \A j \in Jobs :
        config[j].backup_type = "snapshot" =>
            /\ dest[j].folders = {} /\ dest[j].dirs = {} /\ dest[j].link = NoLink
            /\ \A e \in dest[j].files : e[1] = Root
            /\ \A i \in 1..Len(commands) :
                  commands[i].job = j =>
                      /\ commands[i].target = <<Root, <<>>>>
                      /\ commands[i].link_dest = NoLink

C18_Witness ==
    \E j \in Jobs :
        /\ config[j].backup_type = "snapshot" /\ idx = j /\ pc = "record" /\ backups_made
        /\ Mirror(start.dest[j]) # {}
        /\ Len(commands) = 1 /\ commands[1].delete

\* C19 (as claimed): when the backup folder lies inside the directory being
\* backed up, every rsync of the job excludes it, and no backup holds an entry
\* for it.
C19_Claim ==
    \A j \in Jobs :
        config[j].nested =>
            /\ \A i \in 1..Len(commands) :
                  commands[i].job = j => Inside \in commands[i].exclude
            /\ \A e \in dest[j].files : e[3] # Inside

\* C20: when a job of a rotating type runs rsync, the write target is the
\* folder just allocated, or under rebase_root the directory inside it named
\* as to_backup without its leading separator; that directory exists; and on
\* success the `current` link names the folder, not the directory inside it.
C20_WriteTarget ==
    [][(pc = "make" /\ commands' # commands /\ config[idx].backup_type \in Rotating) =>
          LET cmd == commands'[Len(commands')]
              base == get_backup_folder_basename(dest[idx].folders, now)
              inner == IF config[idx].rebase_root THEN <<"s">> ELSE <<>>
          IN /\ cmd.target = <<base, inner>>
             /\ cmd.target \in dest'[idx].dirs
             /\ (pc' = "unmount" /\ backups_made') => dest'[idx].link = base]_vars

C20_Witness ==
    \E j \in Jobs :
        /\ Regenerated(j, "nolinks") /\ config[j].rebase_root
        /\ Len(commands) = 1 /\ commands[1].target = <<dest[j].link, <<"s">>>>
        /\ commands[1].backup_dir # NoLink

\* C21: when a section of the configuration fails validation, the error is
\* raised at load time: the invocation ends where it began, with no mount,
\* copy or unmount tool run for any job, no destination changed and the
\* history file as it was.
C21_RejectedAtLoad ==
    (\E j \in Jobs : ~Accepted(j)) =>
        /\ pc \in {"start", "aborted"}
        /\ \A k \in Jobs : NoTool(k) /\ ~Reached(k)
        /\ commands = <<>>
        /\ mounted = {}
        /\ dest = start.dest
        /\ persisted = start.history

C21_Witness ==
    /\ invocation = MaxInvocations
    /\ pc = "aborted"
    /\ ~Accepted(2)
    /\ Accepted(1)
    /\ LoggedWith("ValueError", 2, 0)

\* C22: when one section is invalid, every other, valid section is still
\* evaluated for staleness by the end of the invocation.
C22_Claim ==
    \A j, k \in Jobs :
        (invocation > 0 /\ Ended /\ ~Accepted(j) /\ Accepted(k)) => Reached(k)

\* C23 (as claimed): an invocation that began processing jobs writes the
\* history file exactly once, after its last job: it ends in the position
\* that follows the write, with every job behind it (an invocation that could
\* not read a job's record from the history file is left aside).
C23_Claim ==
    (invocation >= 1 /\ Ended /\ \A j \in Jobs : ~Logged("nosection", j)) =>
        (pc = "done" /\ idx = NJobs + 1 /\ persisted = history)

\* The phase of BackupInstance.run / BackupManager.run an entry of the log
\* belongs to: the decision, the mount, the backup, the unmount, the record.
Phase(kind) ==
    CASE kind \in {"run", "skip", "nosection"} -> 0
      [] kind \in {"mount", "nomountpoint", "already"} -> 1
      [] kind \in {"rsync", "error", "unrecognised"} -> 2
      [] kind = "umount" -> 3
      [] kind = "record" -> 4
      [] OTHER -> 0

\* C24: the log of an invocation is ordered by job, in configuration order,
\* and for each job by phase: decision, mount, copy, unmount, history record,
\* each tool run at most once for the job; when the log holds an entry of job
\* j + 1, job j was decided before, was unmounted if the invocation had
\* mounted its partition, and was recorded if its backup was made.
C24_EventOrder ==
    /\ \A a, b \in 1..Len(events) :
           a < b =>
               \/ events[a][2] < events[b][2]
               \/ /\ events[a][2] = events[b][2]
                  /\ Phase(events[a][1]) <= Phase(events[b][1])
    /\ \A j \in Jobs : \A k \in {"run", "skip", "mount", "umount", "record"} :
           Count(k, j) <= 1
    /\ \A j \in Jobs :
           (j + 1 \in Jobs /\ Reached(j + 1)) =>
               /\ Reached(j)
               /\ LoggedWith("mount", j, 0) => LoggedWith("umount", j, 0)
               /\ (Ran(j) /\ ~Logged("error", j) /\ ~LoggedWith("rsync", j, 1))
                      => Logged("record", j)

C24_Witness ==
    /\ pc = "done"
    /\ \A j \in Jobs :
           /\ LoggedWith("mount", j, 0)
           /\ LoggedWith("rsync", j, 0)
           /\ LoggedWith("umount", j, 0)
           /\ Logged("record", j)

\* The backup step of job j, taken with the `current` link naming a folder of
\* the destination.
RotatesPrevious(j) ==
    /\ pc = "make" /\ pc' # "make"
    /\ idx = j
    /\ config[j].backup_type = "nolinks"
    /\ dest[j].link # NoLink
    /\ dest[j].link \in dest[j].folders

\* C25 (as claimed): every nolinks run that finds a previous snapshot P behind
\* `current` finds no P_bak in the destination and creates it, empty.
C25_Claim ==
    [][\A j \in Jobs :
          RotatesPrevious(j) =>
              /\ Bak(dest[j].link) \notin dest[j].folders
              /\ Bak(dest[j].link) \in dest'[j].folders
              /\ FilesOf(dest[j].files, Bak(dest[j].link)) = {}]_vars

\* C26: when the rsync of a nolinks run that found a previous snapshot P
\* behind `current` exits non-zero, nothing is undone: the folder P is gone
\* under its old name and stands under the newly allocated name, P_bak is
\* there, the link still names P, and every file P held is still stored, in
\* the renamed folder or (replaced by the interrupted rsync) in P_bak.
C26_NoRollback ==
    [][\A j \in Jobs :
          (/\ RotatesPrevious(j)
           /\ \E i \in 1..Len(events') : events'[i] = Rsync(j, 1))
          =>
          LET P == dest[j].link
              N == get_backup_folder_basename(dest[j].folders, now)
          IN /\ N # P
             /\ N \in dest'[j].folders
             /\ P \notin dest'[j].folders
             /\ Bak(P) \in dest'[j].folders
             /\ dest'[j].link = P
             /\ ~backups_made'
             /\ \A e \in FilesOf(dest[j].files, P) :
                    \E f \in dest'[j].files :
                        /\ f[1] \in {N, Bak(P)}
                        /\ <<f[2], f[3], f[4], f[5]>> = <<e[2], e[3], e[4], e[5]>>]_vars

C26_Witness ==
    /\ config[1].backup_type = "nolinks"
    /\ idx = 1 /\ pc = "unmount"
    /\ LoggedWith("rsync", 1, 1)
    /\ start.dest[1].link # NoLink
    /\ FilesOf(start.dest[1].files, start.dest[1].link) # {}
    /\ dest[1].link = start.dest[1].link
    /\ dest[1].link \notin dest[1].folders
    /\ FilesOf(dest[1].files, Bak(dest[1].link)) # {}

\* C27: the backup step of an incremental job, whether rsync exits 0 or not,
\* leaves every folder the destination held before it in place, under its
\* name, with the same directories and the same files: the same storage
\* objects at the same versions, none added and none removed.
C27_IncrementalKeepsGenerations ==
    [][\A j \in Jobs :
          (pc = "make" /\ idx = j /\ config[j].backup_type = "incremental") =>
              \A F \in dest[j].folders :
                  /\ F \in dest'[j].folders
                  /\ {l \in dest'[j].dirs : l[1] = F} = {l \in dest[j].dirs : l[1] = F}
                  /\ FilesOf(dest'[j].files, F) = FilesOf(dest[j].files, F)]_vars

C27_Witness ==
    /\ config[1].backup_type = "incremental"
    /\ idx = 1 /\ pc = "unmount"
    /\ Logged("rsync", 1)
    /\ start.dest[1].link # NoLink
    /\ \E e \in FilesOf(start.dest[1].files, start.dest[1].link) :
           /\ e \in dest[1].files
           /\ e[3] \in Names
           /\ source[e[3]] # e[5]
           /\ \E f \in dest[1].files :
                  f[1] \notin start.dest[1].folders /\ f[3] = e[3] /\ f[5] # e[5]

\* The rsync command line the step has just run, when it ran one.
RanCommand == Len(commands') = Len(commands) + 1
TheCommand == commands'[Len(commands')]

\* C28: the rsync command line of a backup step carries --link-dest if and
\* only if the job is incremental and the `current` link named an existing
\* folder when the step began, and --link-dest then names that folder; an
\* incremental step of ink.py that finds such a link does run rsync.
C28_ReuseHint ==
    [][\A j \in Jobs :
          (pc = "make" /\ idx = j /\ pc' # "make") =>
              /\ RanCommand =>
                    /\ TheCommand.job = j
                    /\ TheCommand.link_dest # NoLink
                           <=> (config[j].backup_type = "incremental" /\ IsDir(dest[j]))
                    /\ TheCommand.link_dest # NoLink
                           => TheCommand.link_dest = <<dest[j].link, <<>>>>
              /\ (/\ program = "ink.py"
                  /\ config[j].backup_type = "incremental"
                  /\ IsDir(dest[j])) => RanCommand]_vars

C28_Witness ==
    /\ Len(commands) = 1
    /\ commands[1].link_dest = <<start.dest[1].link, <<>>>>
    /\ start.dest[1].link \in start.dest[1].folders
    /\ config[1].backup_type = "incremental"

\* C29: _replace_symlink is os.unlink, then os.symlink.  The unlink step goes
\* on to the symlink step whether or not there was a link, and leaves none;
\* a process stopped between the two steps leaves the destination with no
\* `current` link; the symlink step makes the link to an existing folder.
\* The link changes in these two steps only, so once a run of the job has
\* succeeded the link is missing only between the two steps, or after a stop
\* between them: in the invocation that was stopped there, or in one that
\* began with the link already missing.
C29_TwoStepReplace ==
    [][/\ (pc = "unlink" /\ pc' \notin {"unlink", "aborted"}) =>
              (pc' = "symlink" /\ dest'[idx].link = NoLink)
       /\ (pc = "symlink" /\ pc' = "aborted") =>
              (dest'[idx].link = NoLink /\ events'[Len(events')] = Event("stop", idx, 1))
       /\ (pc = "symlink" /\ pc' \notin {"symlink", "aborted"}) =>
              (dest'[idx].link # NoLink /\ dest'[idx].link \in dest'[idx].folders)
       /\ \A j \in Jobs :
              /\ dest'[j].link # dest[j].link => (idx = j /\ pc \in {"unlink", "symlink"})
              /\ (latest'[j] # NoLink /\ dest'[j].link = NoLink) =>
                     \/ idx' = j /\ pc' = "symlink"
                     \/ \E i \in 1..Len(events') : events'[i] = Event("stop", j, 1)
                     \/ start'.dest[j].link = NoLink]_vars

C29_Witness ==
    /\ pc = "aborted"
    /\ LoggedWith("stop", 1, 1)
    /\ start.dest[1].link # NoLink
    /\ latest[1] = start.dest[1].link
    /\ dest[1].link = NoLink

\* N is the name the allocation owes for the entries `folders` at time t: of
\* the minute of t, not among the entries, with every smaller suffix taken.
Owed(N, folders, t) ==
    /\ N \notin folders
    /\ N = FolderName(Minute(t), N[2])
    /\ \A i \in 0..(N[2] - 1) : FolderName(Minute(t), i) \in folders

\* C30: the folder a backup step of an incremental, nolinks or full job
\* allocates is named <prefix><minute> when the destination has no entry of
\* that name, else <prefix><minute>_n for the smallest n >= 1 whose name is
\* not taken; it is never a name the destination already had.  The name is
\* the one rsync is given as its target (ink.py) and the one folder the step
\* adds (source/ink.py, which raises before rsync).
C30_Allocation ==
    [][\A j \in Jobs :
          (/\ pc = "make" /\ pc' # "make" /\ idx = j
           /\ config[j].backup_type \in {"incremental", "nolinks", "full"})
          =>
          /\ RanCommand => Owed(TheCommand.target[1], dest[j].folders, now)
          /\ program = "source/ink.py" =>
                 \E N \in dest'[j].folders :
                     /\ Owed(N, dest[j].folders, now)
                     /\ dest'[j].folders = dest[j].folders \cup {N}]_vars

C30_Witness ==
    /\ Len(commands) = 1
    /\ commands[1].target[1] = FolderName(Minute(now), 2)
    /\ FolderName(Minute(now), 0) \in start.dest[1].folders
    /\ FolderName(Minute(now), 1) \in start.dest[1].folders
    /\ config[1].backup_type = "incremental"

\* The identifiers of section c found among the arguments a of a command.
Passed(c, a) ==
    {x \in {c.UUID, c.partition_label, c.partition_device} \ {""} :
        \E k \in 1..Len(a) : a[k] = x}

\* C31: every mount command line the invocation ran is `mount`, at most one
\* identifier and the mount point: -U and the UUID when a UUID is configured;
\* else -L and the label when a label is; else the device when a device is;
\* else nothing (the entry of /etc/fstab).  A command line is logged exactly
\* when the mount tool was run for the job, which is when the job has a mount
\* point that /proc/mounts did not list.
C31_MountIdentifier ==
    \A j \in Jobs :
        /\ Logged("argv", j) <=> Logged("mount", j)
        /\ Logged("mount", j) =>
               (config[j].mount_point # "" /\ LoggedWith("run", j, 0))
        /\ \A i \in 1..Len(events) :
               (events[i][1] = "argv" /\ events[i][2] = j) =>
                   LET c == config[j]
                       a == events[i][3]
                       id == SubSeq(a, 2, Len(a) - 1)
                   IN /\ a[1] = "mount"
                      /\ a[Len(a)] = c.mount_point
                      /\ Cardinality(Passed(c, id)) <= 1
                      /\ c.UUID # "" => id = <<"-U", c.UUID>>
                      /\ (c.UUID = "" /\ c.partition_label # "")
                             => id = <<"-L", c.partition_label>>
                      /\ (c.UUID = "" /\ c.partition_label = ""
                             /\ c.partition_device # "")
                             => id = <<c.partition_device>>
                      /\ (c.UUID = "" /\ c.partition_label = ""
                             /\ c.partition_device = "")
                             => id = <<>>

C31_Witness ==
    \E j \in Jobs :
        /\ config[j].UUID = ""
        /\ config[j].partition_label # ""
        /\ config[j].partition_device # ""
        /\ LoggedWith("argv", j, <<"mount", "-L", "label", "/mnt">>)
        /\ LoggedWith("mount", j, 0)

\* C32: for a job with no mount point (whatever identifiers it has, and so
\* also with none) neither mount nor umount is run and /proc/mounts is not
\* read: the log holds no mount command line, no mount, no umount and no
\* "already mounted" line for it, and its mount status is never
\* NEWLY_MOUNTED; a due job still goes through its backup step.
C32_NoMountPointNoOp ==
    \A j \in Jobs :
        config[j].mount_point = "" =>
            /\ \A k \in {"argv", "mount", "umount", "already"} : ~Logged(k, j)
            /\ mount_status[j] # "NEWLY_MOUNTED"
            /\ (Ran(j) /\ JobOver(j)) =>
                   /\ LoggedWith("nomountpoint", j, 0)
                   /\ \E k \in {"rsync", "error", "unrecognised"} : Logged(k, j)

C32_Witness ==
    \E j \in Jobs :
        /\ config[j].mount_point = ""
        /\ config[j].UUID = ""
        /\ config[j].partition_label = ""
        /\ config[j].partition_device = ""
        /\ mounted = {}
        /\ idx > j
        /\ LoggedWith("rsync", j, 0)
        /\ Logged("record", j)

\* A path that begins at the root.
Absolute(text) == text # <<>> /\ text[1] = "/"

\* The defects C33 lists: sourcePath empty or not absolute, destinationRoot
\* empty, destinationRoot not absolute while no mount point is configured.
Listed(s) ==
    \/ ~Absolute(s.to_backup)
    \/ s.backup_folder = <<>>
    \/ s.mount_point = <<>> /\ ~Absolute(s.backup_folder)

\* A section that violates one of the invariants the specification states
\* of a job: the listed ones, or a frequency that is no non-negative integer.
Violates(s) ==
    \/ Listed(s)
    \/ ~isint(s.frequency_seconds)
    \/ int(s.frequency_seconds) < 0

\* The load of the running invocation ended with the ValueError of section j.
Rejected(j) == LoggedWith("ValueError", j, 0)

\* C33 (as claimed): _check_config of source/ink.py rejects every section with
\* a listed defect (the load ends at that section or before it) and accepts
\* every section that violates none of the stated invariants.
C33_Claim ==
    (program = "source/ink.py" /\ invocation > 0) =>
        \A j \in Jobs :
            /\ Listed(config[j].section) => \E k \in 1..j : Rejected(k)
            /\ ~Violates(config[j].section) => ~Rejected(j)

\* C33 (amended): _check_config of source/ink.py rejects exactly the sections
\* whose sourcePath is empty or not absolute, whose destinationRoot is empty,
\* whose mount point is given and not absolute, whose destinationRoot is not
\* absolute while no mount point is given, or whose frequency is no integer;
\* it accepts every other section.
Defective(s) ==
    \/ Listed(s)
    \/ s.mount_point # <<>> /\ ~Absolute(s.mount_point)
    \/ ~isint(s.frequency_seconds)

C33_Validation ==
    (program = "source/ink.py" /\ invocation > 0) =>
        \A j \in Jobs :
            /\ Defective(config[j].section) => \E k \in 1..j : Rejected(k)
            /\ ~Defective(config[j].section) => ~Rejected(j)

\* A section with a relative mount point and no other defect was rejected.
C33_Witness ==
    /\ program = "source/ink.py"
    /\ \E j \in Jobs :
           /\ ~Violates(config[j].section)
           /\ ~Absolute(config[j].section.mount_point)
           /\ config[j].section.mount_point # <<>>
           /\ Rejected(j)

\* C34 (as claimed): a section whose frequency is a negative integer is
\* rejected at load, so every job the loop comes to has a non-negative
\* frequency, and a job with a record is never found due at the very second
\* the record was written.
C34_Claim ==
    \A j \in Jobs :
        /\ Reached(j) => config[j].frequency >= 0
        /\ (Ran(j) /\ ~force /\ start.history[j] # NoRecord)
               => now > start.history[j] * TicksPerSec

\* The options that hold a path.
PathOptions == {"mount_point", "backup_folder", "to_backup", "link_name", "exclude_file"}

\* C35 (as claimed): once the instances of an invocation are built, no
\* path-valued option of a section ends with a path separator, whatever the
\* text in the configuration file; only a to_backup of "/" is kept as it is.
C35_Claim ==
    (invocation > 0 /\ \A k \in Jobs : Accepted(k)) =>
        \A j \in Jobs : \A o \in PathOptions :
            \/ options[j][o] = <<>>
            \/ options[j][o][Len(options[j][o])] # "/"
            \/ o = "to_backup" /\ options[j][o] = <<"/">>

\* C36 (as claimed): a due job of an unrecognised backup type whose backup
\* step was reached runs no rsync and leaves its destination as it was, and
\* once the job is over its success is entered in the history with the time
\* of the entry.
C36_Claim ==
    \A j \in Jobs :
        (config[j].backup_type \notin Recognised /\ Logged("unrecognised", j)) =>
            /\ ~Logged("rsync", j)
            /\ dest[j] = start.dest[j]
            /\ JobOver(j) =>
                   \E t \in 0..MaxTime :
                       LoggedWith("record", j, t) /\ history[j] = IntTime(t)

\* The backup step of job j ends in failure.
Fails(j) == pc = "make" /\ idx = j /\ pc' = "unmount" /\ ~backups_made'

\* C37: a failed backup step of an incremental or full job leaves the folder
\* it allocated in the backup folder, beside every folder that was there (so
\* each failure adds one folder), with what rsync copied and nothing else in
\* it changed; the `current` link is as it was, naming the folder of the last
\* successful run if there was one, and no step ever points the link to a
\* folder that existed before the step, so never to the folder of a failed
\* run.
C37_FailedFolderStays ==
    [][\A j \in Jobs :
        config[j].backup_type \in {"incremental", "full"} =>
            /\ Fails(j) =>
                 LET base == get_backup_folder_basename(dest[j].folders, now)
                 IN /\ base \notin dest[j].folders
                    /\ dest'[j].folders = dest[j].folders \cup {base}
                    /\ Cardinality(dest'[j].folders) = Cardinality(dest[j].folders) + 1
                    /\ {e \in dest'[j].files : e[1] # base} = dest[j].files
                    /\ dest'[j].link = dest[j].link
                    /\ dest'[j].link = latest'[j]
                    /\ dest'[j].link # base
            /\ dest'[j].link # dest[j].link =>
                 /\ Succeeds /\ idx = j
                 /\ dest'[j].link \notin dest[j].folders
                 /\ dest'[j].link \in dest'[j].folders
            /\ dest[j].folders \subseteq dest'[j].folders]_vars

\* A successful run followed by two failed ones, the second with rsync
\* stopped part way: three folders, the link on the first, the third partly
\* filled.
C37_Witness ==
    /\ program = "ink.py"
    /\ config[1].backup_type \in {"incremental", "full"}
    /\ LoggedWith("rsync", 1, 1)
    /\ pc = "done"
    /\ dest[1].link # NoLink
    /\ dest[1].link = latest[1]
    /\ Cardinality(dest[1].folders) = 3
    /\ \E f \in dest[1].folders \ {dest[1].link} :
           Cardinality({e \in dest[1].files : e[1] = f}) = 1

\* C38: the write of the history file at the end of an invocation leaves
\* every record the invocation did not enter as it was read at the start:
\* those of the jobs it skipped, of the jobs that failed, and of the section
\* that no section of the configuration file names.
C38_FlushKeepsRecords ==
    [][(pc = "flush" /\ pc' = "done") =>
          \A s \in HistorySections :
              (s \notin Jobs \/ ~Logged("record", s)) =>
                  /\ persisted'[s] = start.history[s]
                  /\ persisted'[s] = persisted[s]]_vars

\* A history file written after one job was skipped and the other failed.
C38_Witness ==
    /\ pc = "done"
    /\ idx = NJobs + 1
    /\ \E j, k \in Jobs :
           /\ Logged("skip", j)
           /\ start.history[j] # NoRecord
           /\ Logged("error", k)
           /\ ~Logged("record", k)
    /\ persisted[Removed] = Kept

\* A folder name with the _bak suffix.
IsBak(name) == name[3] > 0

\* A backup folder that is empty, or where the `current` link names a folder
\* without the _bak suffix and every other folder has the suffix.
OneGeneration(d) ==
    \/ d.link = NoLink /\ d.folders = {}
    \/ /\ d.link \in d.folders
       /\ ~IsBak(d.link)
       /\ \A f \in d.folders \ {d.link} : IsBak(f)

\* C39: for a nolinks job, from an empty backup folder on, every step other
\* than a failed backup step keeps the backup folder with exactly one folder
\* without the _bak suffix, the one the `current` link names; a successful run
\* that found a link leaves the folder the link named under the new name only
\* and beside it the _bak folder of the old name.  So it is after any sequence
\* of runs that all succeed.
C39_NoLinksOneGeneration ==
    [][\A j \in Jobs :
        (config[j].backup_type = "nolinks" /\ OneGeneration(dest[j]) /\ ~Fails(j)) =>
            /\ OneGeneration(dest'[j])
            /\ (Succeeds /\ idx = j) =>
                   /\ dest'[j].link # NoLink
                   /\ dest'[j].link # dest[j].link
                   /\ dest[j].link # NoLink =>
                          /\ dest[j].link \notin dest'[j].folders
                          /\ Bak(dest[j].link) \in dest'[j].folders]_vars

\* Three successful nolinks runs: the current folder and two _bak folders.
C39_Witness ==
    /\ program = "ink.py"
    /\ config[1].backup_type = "nolinks"
    /\ invocation = 3
    /\ pc = "done"
    /\ LoggedWith("rsync", 1, 0)
    /\ OneGeneration(dest[1])
    /\ dest[1].link = latest[1]
    /\ Cardinality(dest[1].folders) = 3

====
